---- MODULE Spec2Model ----
(***************************************************************************)
(* A model of the spmcq ring buffer (src/src/lib.rs): one Writer, several  *)
(* Readers, a fixed array of Items each guarded by its own use_count spin  *)
(* lock.  Every access to shared memory (an atomic operation, or a plain   *)
(* load or store of an UnsafeCell) is one step; the private computation    *)
(* that follows it belongs to the same step.                               *)
(*                                                                         *)
(* The n-th call of Writer::write passes the value n, so a value names the *)
(* write that stored it; T::default() is 0.                                *)
(***************************************************************************)
EXTENDS Integers, Sequences, FiniteSets, TLC

\* ---------------------------------------------------------------- bounds
\* capacity passed to ring_buffer (the code requires capacity >= 2)
Capacity == 2
\* reader handles that can exist: the original and its clones
NumReaders == 2
\* calls of write() when several readers run beside the writer
MaxWrites == 5
\* calls of write() when one reader runs beside the writer (enough for the
\* lap counters to wrap: LapMod laps and one more write)
LongWrites == 9
\* width of the lap counters in bits; the code's u16 has 16.  Every lap
\* computation below is modulo 2^LapBits, as the code's is modulo 2^16.
LapBits == 2
\* largest capacity ring_buffer is called with
MaxCapacity == 4

LapMod == 2 ^ LapBits
Slots == 0 .. (Capacity - 1)
Readers == 1 .. NumReaders

VARIABLES
    \* shared: Item fields, one per slot, and the write cursor
    use_count,          \* Item::use_count
    item_lap_count,     \* Item::lap_count
    item_data,          \* Item::data
    write_index,        \* the shared AtomicUsize
    \* Writer
    writer_lap_count,   \* Writer::lap_count
    index,              \* write()'s local `index`
    w_pc,               \* where the writer is inside write()
    \* Readers (functions over Readers)
    alive,              \* the handle exists
    read_index,         \* Reader::read_index
    reader_lap_count,   \* Reader::lap_count
    expected_use_count, \* read()'s local of the spin loop
    value,              \* read()'s local `value`
    value_lap_count,    \* read()'s local `value_lap_count`
    r_pc,               \* where the reader is inside read()
    \* history (never read by the program)
    nwrites,            \* calls of write() so far; the value of the latest
    stored,             \* <<value, lap>> pairs stored, one per write()
    last,               \* value of the reader's latest non-Empty result
    results,            \* how many non-Empty results it had (2: two or more)
    skipped,            \* the reader (or its source) has called skip_ahead
    skips,              \* skip_ahead calls since its latest read() (2: two or more)
    vskips,             \* ... since its latest non-Empty read() (2: or more)
    twice,              \* it has called skip_ahead twice with no read() between
    \* history recorded in the serial specification only
    prev,               \* kind of the result of the reader's latest read()
    armed,              \* skip_ahead called after a completed write, no read() since
    quiet,              \* 1: armed and no write since; 2: and one read() since
    wsince,             \* writes completed since the reader's latest read()
    synced,             \* the reader stood at the writer's position after it
    \* history recorded in the specification of twin handles only
    turn,               \* the call handle 1 has made and handle 2 has yet to make
    \* the call of ring_buffer
    capacity,           \* its argument
    outcome,            \* "pending" before the call, then "returned" or "panicked"
    \* history recorded in the specification of the published cursor only
    seen,               \* writes published when the reader's skip_ahead loaded the cursor
    \* history recorded in the specification of the reader's pace only
    kept                \* the writer has never been more than Capacity values ahead

shared == <<use_count, item_lap_count, item_data, write_index>>
wvars == <<writer_lap_count, index, w_pc>>
rpriv == <<read_index, reader_lap_count>>
rlocals == <<expected_use_count, value, value_lap_count>>
hist == <<nwrites, stored, last, results, skipped, skips, vskips, twice>>
construction == <<capacity, outcome>>
track == <<prev, armed, quiet, wsince, synced, turn, construction, seen, kept>>
vars == <<shared, wvars, alive, rpriv, rlocals, r_pc, hist, track>>

\* ------------------------------------------------------------ arithmetic
\* u16::wrapping_add(1) and u16::wrapping_sub(1)
WrappingAdd1(x) == (x + 1) % LapMod
WrappingSub1(x) == (x + LapMod - 1) % LapMod
Max0(x) == IF x > 0 THEN x ELSE 0

\* writes whose write() call has returned
Completed == IF w_pc = "idle" THEN nwrites ELSE nwrites - 1
\* writes that have taken their slot (the value stored or about to be)
Started == IF w_pc \in {"idle", "acquire"} THEN Completed ELSE nwrites

\* -------------------------------------------------------------- ring_buffer
\* handles that start on the lap the slots are filled with
InitialLapCountOfSlots == 1 - 1

\* lines 93-100 and 102-108: both handles start with lap_count 1
InitialLapCount == 1

\* lines 76-111, for capacity = Capacity
Construct ==
    /\ use_count = [j \in Slots |-> 0]
    /\ item_lap_count = [j \in Slots |-> 0]
    /\ item_data = [j \in Slots |-> 0]
    /\ write_index = 0
    /\ writer_lap_count = InitialLapCount
    /\ index = 0
    /\ w_pc = "idle"
    /\ alive = [r \in Readers |-> r = 1]
    /\ read_index = [r \in Readers |-> 0]
    /\ reader_lap_count = [r \in Readers |-> InitialLapCount]
    /\ expected_use_count = [r \in Readers |-> 0]
    /\ value = [r \in Readers |-> 0]
    /\ value_lap_count = [r \in Readers |-> 0]
    /\ r_pc = [r \in Readers |-> "idle"]
    /\ nwrites = 0
    /\ stored = <<>>
    /\ last = [r \in Readers |-> 0]
    /\ results = [r \in Readers |-> 0]
    /\ skipped = [r \in Readers |-> FALSE]
    /\ skips = [r \in Readers |-> 0]
    /\ vskips = [r \in Readers |-> 0]
    /\ twice = [r \in Readers |-> FALSE]
    /\ prev = [r \in Readers |-> "None"]
    /\ armed = [r \in Readers |-> FALSE]
    /\ quiet = [r \in Readers |-> 0]
    /\ wsince = [r \in Readers |-> 0]
    /\ synced = [r \in Readers |-> TRUE]
    /\ turn = "even"
    /\ seen = [r \in Readers |-> 0]
    /\ kept = [r \in Readers |-> TRUE]
    /\ capacity = Capacity
    /\ outcome = "returned"

Init == Construct

\* ------------------------------------------------------------ Writer::write
\* lines 289-294: load the cursor, pick the item
WriteBegin(bound) ==
    /\ w_pc = "idle"
    /\ nwrites < bound
    /\ index' = write_index
    /\ nwrites' = nwrites + 1
    /\ w_pc' = "acquire"
    /\ UNCHANGED <<shared, writer_lap_count, alive, rpriv, rlocals, r_pc>>
    /\ UNCHANGED <<stored, last, results, skipped, skips, vskips, twice>>

\* lines 296-304: one compare_exchange(0, -1) of the spin loop
WriteAcquire ==
    /\ w_pc = "acquire"
    /\ IF use_count[index] = 0
       THEN /\ use_count' = [use_count EXCEPT ![index] = -1]
            /\ w_pc' = "store_data"
       ELSE UNCHANGED <<use_count, w_pc>>
    /\ UNCHANGED <<item_lap_count, item_data, write_index, writer_lap_count, index>>
    /\ UNCHANGED <<alive, rpriv, rlocals, r_pc>>
    /\ UNCHANGED hist

\* line 310: *item.data.get() = value
WriteStoreData ==
    /\ w_pc = "store_data"
    /\ item_data' = [item_data EXCEPT ![index] = nwrites]
    /\ w_pc' = "store_lap"
    /\ UNCHANGED <<use_count, item_lap_count, write_index, writer_lap_count, index>>
    /\ UNCHANGED <<alive, rpriv, rlocals, r_pc, hist>>

\* line 312: *item.lap_count.get() = self.lap_count
WriteStoreLap ==
    /\ w_pc = "store_lap"
    /\ item_lap_count' = [item_lap_count EXCEPT ![index] = writer_lap_count]
    /\ stored' = Append(stored, <<item_data[index], writer_lap_count>>)
    /\ w_pc' = "publish"
    /\ UNCHANGED <<use_count, item_data, write_index, writer_lap_count, index>>
    /\ UNCHANGED <<alive, rpriv, rlocals, r_pc>>
    /\ UNCHANGED <<nwrites, last, results, skipped, skips, vskips, twice>>

\* a writer that forgets to count the lap when the cursor wraps
WriterLapAfterNoWrap(i, lap) == lap

\* a publish that stores the cursor as it was loaded, not advanced
NextIndexStale(i) == i

\* lines 316-320: the cursor after `i`, and whether it wrapped
NextIndex(i) == IF i + 1 = Capacity THEN 0 ELSE i + 1
WriterLapAfter(i, lap) == IF i + 1 = Capacity THEN WrappingAdd1(lap) ELSE lap

\* lines 315-323: advance, then self.write_index.store(next_index)
WritePublish ==
    /\ w_pc = "publish"
    /\ write_index' = NextIndex(index)
    /\ writer_lap_count' = WriterLapAfter(index, writer_lap_count)
    /\ w_pc' = "release"
    /\ UNCHANGED <<use_count, item_lap_count, item_data, index>>
    /\ UNCHANGED <<alive, rpriv, rlocals, r_pc, hist>>

\* lines 325-329: compare_exchange(-1, 0).unwrap()
WriteRelease ==
    /\ w_pc = "release"
    /\ IF use_count[index] = -1
       THEN /\ use_count' = [use_count EXCEPT ![index] = 0]
            /\ w_pc' = "idle"
       ELSE /\ w_pc' = "panicked"
            /\ UNCHANGED use_count
    /\ UNCHANGED <<item_lap_count, item_data, write_index, writer_lap_count, index>>
    /\ UNCHANGED <<alive, rpriv, rlocals, r_pc, hist>>

\* ------------------------------------------------------------- Reader::read
\* lines 180-185: pick the item, expected_use_count = 0
ReadBegin(r) ==
    /\ alive[r]
    /\ r_pc[r] = "idle"
    /\ w_pc # "panicked"
    /\ expected_use_count' = [expected_use_count EXCEPT ![r] = 0]
    /\ r_pc' = [r_pc EXCEPT ![r] = "acquire"]
    /\ UNCHANGED <<shared, wvars, alive, rpriv, value, value_lap_count, hist>>

\* a retry that forgets the clamp max(0): it would expect -1 and take the
\* slot from the writer
RetryExpectedUnclamped(actual_use_count) == actual_use_count

\* line 194: the expected value of the next attempt
RetryExpected(actual_use_count) == Max0(actual_use_count)

\* lines 186-196: one compare_exchange(expected, expected + 1) of the spin loop
ReadAcquire(r) ==
    /\ r_pc[r] = "acquire"
    /\ LET j == read_index[r]
           e == expected_use_count[r]
       IN  IF use_count[j] = e
           THEN /\ use_count' = [use_count EXCEPT ![j] = e + 1]
                /\ r_pc' = [r_pc EXCEPT ![r] = "copy_data"]
                /\ UNCHANGED expected_use_count
           ELSE /\ expected_use_count' =
                      [expected_use_count EXCEPT ![r] = RetryExpected(use_count[j])]
                /\ UNCHANGED <<use_count, r_pc>>
    /\ UNCHANGED <<item_lap_count, item_data, write_index, wvars>>
    /\ UNCHANGED <<alive, rpriv, value, value_lap_count, hist>>

\* line 204: let value = *item.data.get()
ReadCopyData(r) ==
    /\ r_pc[r] = "copy_data"
    /\ value' = [value EXCEPT ![r] = item_data[read_index[r]]]
    /\ r_pc' = [r_pc EXCEPT ![r] = "copy_lap"]
    /\ UNCHANGED <<shared, wvars, alive, rpriv, expected_use_count, value_lap_count, hist>>

\* line 206: let value_lap_count = *item.lap_count.get()
ReadCopyLap(r) ==
    /\ r_pc[r] = "copy_lap"
    /\ value_lap_count' = [value_lap_count EXCEPT ![r] = item_lap_count[read_index[r]]]
    /\ r_pc' = [r_pc EXCEPT ![r] = "release"]
    /\ UNCHANGED <<shared, wvars, alive, rpriv, expected_use_count, value, hist>>

\* a classification that takes every written slot for the expected one
ResultKindNoDropout(observed_lap, expected_lap) ==
    IF WrappingAdd1(observed_lap) = expected_lap THEN "Empty" ELSE "Ok"

\* a classification that reports every written slot as a Dropout
ResultKindNoOk(observed_lap, expected_lap) ==
    IF WrappingAdd1(observed_lap) = expected_lap THEN "Empty" ELSE "Dropout"

\* a classification that takes an overtaken slot for one not yet written
ResultKindNoResync(observed_lap, expected_lap) ==
    IF observed_lap = expected_lap THEN "Ok" ELSE "Empty"

\* a comparison of laps that is not aware of the wrap
ResultKindNoWrap(observed_lap, expected_lap) ==
    IF observed_lap + 1 = expected_lap THEN "Empty"
    ELSE IF observed_lap = expected_lap THEN "Ok"
    ELSE "Dropout"

\* lines 212-241: which ReadResult a copied lap gives against the expected lap
ResultKind(observed_lap, expected_lap) ==
    IF WrappingAdd1(observed_lap) = expected_lap THEN "Empty"
    ELSE IF observed_lap = expected_lap THEN "Ok"
    ELSE "Dropout"

\* a Dropout that forgets to take over the slot's lap
ResyncLapKept(observed_lap, expected_lap) == expected_lap

\* lines 222-226: the lap the reader carries on after a non-Empty result
ResyncLap(observed_lap, expected_lap) ==
    IF observed_lap # expected_lap THEN observed_lap ELSE expected_lap

\* an advance that forgets to count the lap when the index wraps
ReaderLapAfterNoWrap(i, lap) == lap

\* an advance that leaves the reader on the slot it has just read
ReadIndexAfterStuck(i) == i

\* lines 228-233: move one index forward
ReadIndexAfter(i) == IF i + 1 = Capacity THEN 0 ELSE i + 1
ReaderLapAfter(i, lap) == IF i + 1 = Capacity THEN WrappingAdd1(lap) ELSE lap

\* lines 208-242: fetch_sub(1), then classify, advance and return
ReadRelease(r) ==
    /\ r_pc[r] = "release"
    /\ LET j == read_index[r]
           kind == ResultKind(value_lap_count[r], reader_lap_count[r])
           lap == ResyncLap(value_lap_count[r], reader_lap_count[r])
       IN  /\ use_count' = [use_count EXCEPT ![j] = @ - 1]
           /\ IF kind = "Empty"
              THEN UNCHANGED <<read_index, reader_lap_count, last, results, vskips>>
              ELSE /\ read_index' = [read_index EXCEPT ![r] = ReadIndexAfter(j)]
                   /\ reader_lap_count' =
                          [reader_lap_count EXCEPT ![r] = ReaderLapAfter(j, lap)]
                   /\ last' = [last EXCEPT ![r] = value[r]]
                   /\ results' = [results EXCEPT ![r] = IF @ = 0 THEN 1 ELSE 2]
                   /\ vskips' = [vskips EXCEPT ![r] = 0]
    /\ skips' = [skips EXCEPT ![r] = 0]
    /\ r_pc' = [r_pc EXCEPT ![r] = "idle"]
    /\ expected_use_count' = [expected_use_count EXCEPT ![r] = 0]
    /\ value' = [value EXCEPT ![r] = 0]
    /\ value_lap_count' = [value_lap_count EXCEPT ![r] = 0]
    /\ UNCHANGED <<item_lap_count, item_data, write_index, wvars, alive>>
    /\ UNCHANGED <<nwrites, stored, skipped, twice>>

\* ------------------------------------------------------- Reader::skip_ahead
\* a skip that lands on the cursor itself, the slot written longest ago
SkipAheadIndexAtCursor(wi) == wi

\* lines 256-261: one before the cursor, wrapping below 0
SkipAheadIndex(wi) == (IF wi = 0 THEN Capacity ELSE wi) - 1

\* a skip_ahead that leaves the lap alone
SkipAheadLapKept(lap) == lap

\* line 265
SkipAheadLap(lap) == WrappingSub1(lap)

\* lines 252-266
SkipAhead(r) ==
    /\ alive[r]
    /\ r_pc[r] = "idle"
    /\ w_pc # "panicked"
    /\ read_index' = [read_index EXCEPT ![r] = SkipAheadIndex(write_index)]
    /\ reader_lap_count' = [reader_lap_count EXCEPT ![r] = SkipAheadLap(@)]
    /\ skipped' = [skipped EXCEPT ![r] = TRUE]
    /\ skips' = [skips EXCEPT ![r] = IF @ = 0 THEN 1 ELSE 2]
    /\ vskips' = [vskips EXCEPT ![r] = IF @ = 0 THEN 1 ELSE 2]
    /\ twice' = [twice EXCEPT ![r] = @ \/ skips[r] >= 1]
    /\ UNCHANGED <<shared, wvars, alive, rlocals, r_pc>>
    /\ UNCHANGED <<nwrites, stored, last, results>>

\* ---------------------------------------------------- impl Clone for Reader
\* a clone that starts on the lap a new reader starts on
ClonedLapInitial(lap) == InitialLapCount

\* lines 275-276: the two fields a clone copies
ClonedIndex(i) == i
ClonedLap(lap) == lap

\* lines 269-278: handle d comes to exist as a copy of handle s
Clone(s, d) ==
    /\ alive[s]
    /\ r_pc[s] = "idle"
    /\ ~alive[d]
    /\ \A e \in Readers : e < d => alive[e]
    /\ alive' = [alive EXCEPT ![d] = TRUE]
    /\ read_index' = [read_index EXCEPT ![d] = ClonedIndex(read_index[s])]
    /\ reader_lap_count' =
           [reader_lap_count EXCEPT ![d] = ClonedLap(reader_lap_count[s])]
    /\ last' = [last EXCEPT ![d] = last[s]]
    /\ results' = [results EXCEPT ![d] = results[s]]
    /\ skipped' = [skipped EXCEPT ![d] = skipped[s]]
    /\ skips' = [skips EXCEPT ![d] = skips[s]]
    /\ vskips' = [vskips EXCEPT ![d] = vskips[s]]
    /\ twice' = [twice EXCEPT ![d] = twice[s]]
    /\ UNCHANGED <<shared, wvars, rlocals, r_pc, nwrites, stored>>

\* ------------------------------------------------- concurrent specification
\* The writer thread and the reader threads run freely; readers read and are
\* cloned.  A handle is used by one thread at a time (read takes &mut self).
Next ==
    \/ WriteBegin(MaxWrites) /\ UNCHANGED track
    \/ WriteAcquire /\ UNCHANGED track
    \/ WriteStoreData /\ UNCHANGED track
    \/ WriteStoreLap /\ UNCHANGED track
    \/ WritePublish /\ UNCHANGED track
    \/ WriteRelease /\ UNCHANGED track
    \/ \E r \in Readers : ReadBegin(r) /\ UNCHANGED track
    \/ \E r \in Readers : ReadAcquire(r) /\ UNCHANGED track
    \/ \E r \in Readers : ReadCopyData(r) /\ UNCHANGED track
    \/ \E r \in Readers : ReadCopyLap(r) /\ UNCHANGED track
    \/ \E r \in Readers : ReadRelease(r) /\ UNCHANGED track
    \/ \E s, d \in Readers : Clone(s, d) /\ UNCHANGED track

Spec == Init /\ [][Next]_vars

\* ------------------------------------------------ specification, scheduled
\* The steps the writer thread takes inside write(): the compare-exchange
\* loop of lines 296-304 and the straight-line code after it.
WriterThread ==
    /\ \/ WriteAcquire
       \/ WriteStoreData
       \/ WriteStoreLap
       \/ WritePublish
       \/ WriteRelease
    /\ UNCHANGED track

\* The steps a reader thread takes inside read(): the compare-exchange loop
\* of lines 186-196 and the straight-line code after it.
ReaderThread(r) ==
    /\ \/ ReadAcquire(r)
       \/ ReadCopyData(r)
       \/ ReadCopyLap(r)
       \/ ReadRelease(r)
    /\ UNCHANGED track

\* A thread inside a call keeps being scheduled, and a compare-exchange that
\* could succeed again and again does succeed at some time.  Whether a
\* thread calls write() or read() again is up to the program using the
\* queue.  Every behaviour that is fair in this strong sense is also weakly
\* fair for every thread.
Fairness ==
    /\ SF_vars(WriterThread)
    /\ \A r \in Readers : SF_vars(ReaderThread(r))

FairSpec == Init /\ [][Next]_vars /\ Fairness

\* ------------------------------------------- specification with skip_ahead
\* The writer thread and the thread of the original reader run freely; the
\* reader reads and skips ahead, the writer makes up to LongWrites writes.
SkipNext ==
    \/ WriteBegin(LongWrites) /\ UNCHANGED track
    \/ WriteAcquire /\ UNCHANGED track
    \/ WriteStoreData /\ UNCHANGED track
    \/ WriteStoreLap /\ UNCHANGED track
    \/ WritePublish /\ UNCHANGED track
    \/ WriteRelease /\ UNCHANGED track
    \/ ReadBegin(1) /\ UNCHANGED track
    \/ ReadAcquire(1) /\ UNCHANGED track
    \/ ReadCopyData(1) /\ UNCHANGED track
    \/ ReadCopyLap(1) /\ UNCHANGED track
    \/ ReadRelease(1) /\ UNCHANGED track
    \/ SkipAhead(1) /\ UNCHANGED track

SkipSpec == Init /\ [][SkipNext]_vars

\* ------------------------------------ specification of the published cursor
\* As the specification with skip_ahead, and every skip_ahead records how
\* many writes had published their cursor when it loaded the cursor.

\* writes that have stored the cursor (line 323)
Published == IF w_pc \in {"release", "idle"} THEN nwrites ELSE nwrites - 1

\* line 256: the load of the cursor sees the latest published value
TrackSeen(r) ==
    /\ seen' = [seen EXCEPT ![r] = Published]
    /\ UNCHANGED <<prev, armed, quiet, wsince, synced, turn, construction, kept>>

\* lines 208-242: the read() after the skip_ahead has returned
TrackSeenRead(r) ==
    /\ seen' = [seen EXCEPT ![r] = 0]
    /\ UNCHANGED <<prev, armed, quiet, wsince, synced, turn, construction, kept>>

PublishNext ==
    \/ WriteBegin(LongWrites) /\ UNCHANGED track
    \/ WriteAcquire /\ UNCHANGED track
    \/ WriteStoreData /\ UNCHANGED track
    \/ WriteStoreLap /\ UNCHANGED track
    \/ WritePublish /\ UNCHANGED track
    \/ WriteRelease /\ UNCHANGED track
    \/ ReadBegin(1) /\ UNCHANGED track
    \/ ReadAcquire(1) /\ UNCHANGED track
    \/ ReadCopyData(1) /\ UNCHANGED track
    \/ ReadCopyLap(1) /\ UNCHANGED track
    \/ ReadRelease(1) /\ TrackSeenRead(1)
    \/ SkipAhead(1) /\ TrackSeen(1)

PublishSpec == Init /\ [][PublishNext]_vars

\* ------------------------------------- specification of the reader's pace
\* The writer thread and the thread of the original reader run freely, the
\* reader only reads; it is recorded whether the writer has ever taken a
\* slot for a value more than Capacity after the reader's latest.

\* lines 296-304: the writer's attempt, and what taking the slot means for
\* each reader
TrackPace ==
    /\ kept' = [r \in Readers |->
                  kept[r] /\ (w_pc' = "store_data" => nwrites <= last[r] + Capacity)]
    /\ UNCHANGED <<prev, armed, quiet, wsince, synced, turn, construction, seen>>

PaceNext ==
    \/ WriteBegin(LongWrites) /\ UNCHANGED track
    \/ WriteAcquire /\ TrackPace
    \/ WriteStoreData /\ UNCHANGED track
    \/ WriteStoreLap /\ UNCHANGED track
    \/ WritePublish /\ UNCHANGED track
    \/ WriteRelease /\ UNCHANGED track
    \/ ReadBegin(1) /\ UNCHANGED track
    \/ ReadAcquire(1) /\ UNCHANGED track
    \/ ReadCopyData(1) /\ UNCHANGED track
    \/ ReadCopyLap(1) /\ UNCHANGED track
    \/ ReadRelease(1) /\ UNCHANGED track

PaceSpec == Init /\ [][PaceNext]_vars

\* --------------------------------------------- specification of the fan-out
\* lines 46-51: a Reader owns nothing but its two Arc references and its two
\* counters, and has no Drop code; dropping a handle that is not inside a
\* call ends its existence and touches nothing else
Drop(r) ==
    /\ alive[r]
    /\ r_pc[r] = "idle"
    /\ alive' = [alive EXCEPT ![r] = FALSE]
    /\ UNCHANGED <<shared, wvars, rpriv, rlocals, r_pc, hist>>

\* the original reader and its first clone
FanReaders == {r \in Readers : r <= 2}

\* The writer thread and the threads of two handles run freely; the handles
\* read, skip ahead (each line of handles once), are cloned and dropped.
FanNext ==
    \/ WriteBegin(MaxWrites) /\ UNCHANGED track
    \/ WriteAcquire /\ UNCHANGED track
    \/ WriteStoreData /\ UNCHANGED track
    \/ WriteStoreLap /\ UNCHANGED track
    \/ WritePublish /\ UNCHANGED track
    \/ WriteRelease /\ UNCHANGED track
    \/ \E r \in FanReaders : ReadBegin(r) /\ UNCHANGED track
    \/ \E r \in FanReaders : ReadAcquire(r) /\ UNCHANGED track
    \/ \E r \in FanReaders : ReadCopyData(r) /\ UNCHANGED track
    \/ \E r \in FanReaders : ReadCopyLap(r) /\ UNCHANGED track
    \/ \E r \in FanReaders : ReadRelease(r) /\ UNCHANGED track
    \/ \E r \in FanReaders : ~skipped[r] /\ SkipAhead(r) /\ UNCHANGED track
    \/ \E s, d \in FanReaders : Clone(s, d) /\ UNCHANGED track
    \/ \E r \in FanReaders : Drop(r) /\ UNCHANGED track

FanSpec == Init /\ [][FanNext]_vars

\* the result the read() of reader r is about to return, once both copies
\* are made (lines 212-241)
Result(r) == ResultKind(value_lap_count[r], reader_lap_count[r])
Copied(r) == alive[r] /\ r_pc[r] = "release"

\* ----------------------------------------------------- serial specification
\* One writer and the original reader, one call at a time: a call begins
\* only when no other is in progress.  The history of the calls is recorded.
AllIdle == w_pc = "idle" /\ \A r \in Readers : r_pc[r] = "idle"

TrackWriteBegin ==
    /\ quiet' = [r \in Readers |-> 0]
    /\ UNCHANGED <<prev, armed, wsince, synced>>

TrackWriteEnd ==
    /\ wsince' = [r \in Readers |-> wsince[r] + 1]
    /\ UNCHANGED <<prev, armed, quiet, synced>>

TrackRead(r) ==
    /\ prev' = [prev EXCEPT ![r] = Result(r)]
    /\ armed' = [armed EXCEPT ![r] = FALSE]
    /\ quiet' = [quiet EXCEPT ![r] = IF @ = 1 THEN 2 ELSE 0]
    /\ wsince' = [wsince EXCEPT ![r] = 0]
    /\ synced' = [synced EXCEPT ![r] = read_index'[r] = write_index
                                        /\ reader_lap_count'[r] = writer_lap_count]

TrackSkip(r) ==
    /\ armed' = [armed EXCEPT ![r] = @ \/ Completed >= 1]
    /\ quiet' = [quiet EXCEPT ![r] = IF Completed >= 1 THEN 1 ELSE 0]
    /\ synced' = [synced EXCEPT ![r] = FALSE]
    /\ UNCHANGED <<prev, wsince>>

SeqNext ==
    \/ AllIdle /\ WriteBegin(LongWrites) /\ TrackWriteBegin /\ UNCHANGED <<turn, construction, seen, kept>>
    \/ WriteAcquire /\ UNCHANGED track
    \/ WriteStoreData /\ UNCHANGED track
    \/ WriteStoreLap /\ UNCHANGED track
    \/ WritePublish /\ UNCHANGED track
    \/ WriteRelease /\ TrackWriteEnd /\ UNCHANGED <<turn, construction, seen, kept>>
    \/ AllIdle /\ ReadBegin(1) /\ UNCHANGED track
    \/ ReadAcquire(1) /\ UNCHANGED track
    \/ ReadCopyData(1) /\ UNCHANGED track
    \/ ReadCopyLap(1) /\ UNCHANGED track
    \/ ReadRelease(1) /\ TrackRead(1) /\ UNCHANGED <<turn, construction, seen, kept>>
    \/ AllIdle /\ SkipAhead(1) /\ TrackSkip(1) /\ UNCHANGED <<turn, construction, seen, kept>>

SeqSpec == Init /\ [][SeqNext]_vars

\* --------------------------------------------- specification of twin handles
\* One call at a time, as in test_two_readers_one_thread.  Handle 1 reads and
\* skips ahead; at any moment between calls it is cloned; from then on
\* handle 2 makes every call handle 1 makes, right after it and before the
\* writer's next write.
TrackClone(s, d) ==
    /\ prev' = [prev EXCEPT ![d] = prev[s]]
    /\ armed' = [armed EXCEPT ![d] = armed[s]]
    /\ quiet' = [quiet EXCEPT ![d] = quiet[s]]
    /\ wsince' = [wsince EXCEPT ![d] = wsince[s]]
    /\ synced' = [synced EXCEPT ![d] = synced[s]]

\* the call handle 2 owes after handle 1 has made `call`
TurnAfter(call) == IF alive[2] THEN call ELSE "even"

TwinNext ==
    \/ AllIdle /\ turn = "even" /\ WriteBegin(LongWrites)
           /\ TrackWriteBegin /\ UNCHANGED <<turn, construction, seen, kept>>
    \/ WriteAcquire /\ UNCHANGED track
    \/ WriteStoreData /\ UNCHANGED track
    \/ WriteStoreLap /\ UNCHANGED track
    \/ WritePublish /\ UNCHANGED track
    \/ WriteRelease /\ TrackWriteEnd /\ UNCHANGED <<turn, construction, seen, kept>>
    \/ AllIdle /\ turn = "even" /\ Clone(1, 2) /\ TrackClone(1, 2) /\ UNCHANGED <<turn, construction, seen, kept>>
    \/ AllIdle /\ turn = "even" /\ ReadBegin(1) /\ UNCHANGED track
    \/ AllIdle /\ turn = "read" /\ ReadBegin(2) /\ UNCHANGED track
    \/ \E r \in {1, 2} : ReadAcquire(r) /\ UNCHANGED track
    \/ \E r \in {1, 2} : ReadCopyData(r) /\ UNCHANGED track
    \/ \E r \in {1, 2} : ReadCopyLap(r) /\ UNCHANGED track
    \/ ReadRelease(1) /\ TrackRead(1) /\ turn' = TurnAfter("read") /\ UNCHANGED <<construction, seen, kept>>
    \/ ReadRelease(2) /\ TrackRead(2) /\ turn' = "even" /\ UNCHANGED <<construction, seen, kept>>
    \/ AllIdle /\ turn = "even" /\ SkipAhead(1) /\ TrackSkip(1)
           /\ turn' = TurnAfter("skip") /\ UNCHANGED <<construction, seen, kept>>
    \/ AllIdle /\ turn = "skip" /\ SkipAhead(2) /\ TrackSkip(2) /\ turn' = "even" /\ UNCHANGED <<construction, seen, kept>>

TwinSpec == Init /\ [][TwinNext]_vars

\* ----------------------------------------- specification, from construction
\* The program from the call of ring_buffer on.  Before the call there is no
\* buffer and no handle; the call is made with any capacity up to
\* MaxCapacity, and a buffer of the modelled capacity is then used as in the
\* concurrent specification.

\* an assertion that lets a buffer of one slot through
CapacityAcceptedNonZero(c) == c >= 1

\* line 80: assert!(capacity >= 2)
CapacityAccepted(c) == c >= 2

\* nothing constructed yet: no slots, no handles
Unbuilt ==
    /\ capacity \in 0 .. MaxCapacity
    /\ outcome = "pending"
    /\ use_count = << >>
    /\ item_lap_count = << >>
    /\ item_data = << >>
    /\ write_index = 0
    /\ writer_lap_count = 0
    /\ index = 0
    /\ w_pc = "idle"
    /\ alive = [r \in Readers |-> FALSE]
    /\ read_index = [r \in Readers |-> 0]
    /\ reader_lap_count = [r \in Readers |-> 0]
    /\ expected_use_count = [r \in Readers |-> 0]
    /\ value = [r \in Readers |-> 0]
    /\ value_lap_count = [r \in Readers |-> 0]
    /\ r_pc = [r \in Readers |-> "idle"]
    /\ nwrites = 0
    /\ stored = << >>
    /\ last = [r \in Readers |-> 0]
    /\ results = [r \in Readers |-> 0]
    /\ skipped = [r \in Readers |-> FALSE]
    /\ skips = [r \in Readers |-> 0]
    /\ vskips = [r \in Readers |-> 0]
    /\ twice = [r \in Readers |-> FALSE]
    /\ prev = [r \in Readers |-> "None"]
    /\ armed = [r \in Readers |-> FALSE]
    /\ quiet = [r \in Readers |-> 0]
    /\ wsince = [r \in Readers |-> 0]
    /\ synced = [r \in Readers |-> TRUE]
    /\ turn = "even"
    /\ seen = [r \in Readers |-> 0]
    /\ kept = [r \in Readers |-> TRUE]

\* lines 76-111: the assertion, then the slots, the cursor and the handles
ring_buffer ==
    /\ outcome = "pending"
    /\ IF CapacityAccepted(capacity)
       THEN /\ use_count' = [j \in 0 .. (capacity - 1) |-> 0]
            /\ item_lap_count' = [j \in 0 .. (capacity - 1) |-> 0]
            /\ item_data' = [j \in 0 .. (capacity - 1) |-> 0]
            /\ write_index' = 0
            /\ read_index' = [read_index EXCEPT ![1] = 0]
            /\ reader_lap_count' = [reader_lap_count EXCEPT ![1] = InitialLapCount]
            /\ writer_lap_count' = InitialLapCount
            /\ alive' = [alive EXCEPT ![1] = TRUE]
            /\ outcome' = "returned"
       ELSE /\ outcome' = "panicked"
            /\ UNCHANGED <<shared, rpriv, writer_lap_count, alive>>
    /\ UNCHANGED <<capacity, index, w_pc, rlocals, r_pc, hist>>
    /\ UNCHANGED <<prev, armed, quiet, wsince, synced, turn, seen, kept>>

\* the buffer ring_buffer returned is the one the actions are written for
Ready == outcome = "returned" /\ capacity = Capacity

BuildNext ==
    \/ ring_buffer
    \/ Ready /\ WriteBegin(MaxWrites) /\ UNCHANGED track
    \/ Ready /\ WriteAcquire /\ UNCHANGED track
    \/ Ready /\ WriteStoreData /\ UNCHANGED track
    \/ Ready /\ WriteStoreLap /\ UNCHANGED track
    \/ Ready /\ WritePublish /\ UNCHANGED track
    \/ Ready /\ WriteRelease /\ UNCHANGED track
    \/ \E r \in Readers : Ready /\ ReadBegin(r) /\ UNCHANGED track
    \/ \E r \in Readers : Ready /\ ReadAcquire(r) /\ UNCHANGED track
    \/ \E r \in Readers : Ready /\ ReadCopyData(r) /\ UNCHANGED track
    \/ \E r \in Readers : Ready /\ ReadCopyLap(r) /\ UNCHANGED track
    \/ \E r \in Readers : Ready /\ ReadRelease(r) /\ UNCHANGED track
    \/ \E s, d \in Readers : Ready /\ Clone(s, d) /\ UNCHANGED track

BuildSpec == Unbuilt /\ [][BuildNext]_vars

\* ================================================================== claims
WriterHolds(j) ==
    w_pc \in {"store_data", "store_lap", "publish", "release"} /\ index = j
ReaderHolds(r, j) ==
    alive[r] /\ r_pc[r] \in {"copy_data", "copy_lap", "release"} /\ read_index[r] = j
CopiedPair(r) == <<value[r], value_lap_count[r]>>

\* C1: no torn reads.  The pair (value, lap) a read() has copied out of a
\* slot is the pair one single write() stored, or the initial (0, 0) pair,
\* under every interleaving of the writer's two stores and the readers' two
\* copies.
C1_NoTornReads ==
    \A r \in Readers :
        Copied(r) =>
            \/ CopiedPair(r) = <<0, 0>>
            \/ \E n \in 1 .. Len(stored) : stored[n] = CopiedPair(r)

\* a reader has copied a written pair while the writer stands between its
\* two stores into another slot and the other reader is copying too
C1_Witness ==
    /\ w_pc = "store_lap"
    /\ \E r, q \in Readers :
          /\ r # q
          /\ Copied(r)
          /\ value[r] >= 1
          /\ ReaderHolds(q, read_index[r])

\* C2: per-slot mutual exclusion.  While the writer is between its acquire
\* and its release of a slot, the slot's use_count is -1 and no reader is
\* between its acquire and release of that slot; while a reader is, the
\* slot's use_count is positive.
C2_MutualExclusion ==
    \A j \in Slots :
        /\ WriterHolds(j) =>
              /\ use_count[j] = -1
              /\ \A r \in Readers : ~ReaderHolds(r, j)
        /\ \A r \in Readers : ReaderHolds(r, j) => use_count[j] > 0

\* two readers hold one slot while the writer holds another
C2_Witness ==
    \E j, k \in Slots :
        /\ j # k
        /\ WriterHolds(k)
        /\ use_count[j] = 2
        /\ \A r \in Readers : ReaderHolds(r, j)

\* C3 as stated (handles only read and are cloned in Spec): for the original
\* reader or a clone, a read() returns Empty as long as no write() has completed, and its first
\* read() after the first write() completed returns Ok with the first value.
C3_AsStated ==
    \A r \in Readers :
        Copied(r) =>
            /\ Completed = 0 => Result(r) = "Empty"
            /\ (Completed >= 1 /\ last[r] = 0) =>
                   (Result(r) = "Ok" /\ value[r] = 1)

\* C3: for the original reader or a clone that only reads, a read()
\* returns Empty as long as no write() has completed; its first read() after
\* the first write() completed returns Ok with the first value, provided the
\* writer has not started more than Capacity writes by then (the first value
\* is still in its slot).
C3_NoReadBeforeWrite ==
    \A r \in Readers :
        Copied(r) =>
            /\ Completed = 0 => Result(r) = "Empty"
            /\ (Completed >= 1 /\ last[r] = 0 /\ Started <= Capacity) =>
                   (Result(r) = "Ok" /\ value[r] = 1)

\* a clone is about to get Ok(1) after the original reader read Empty and
\* then Ok(1), with further writes completed
C3_Witness ==
    /\ Completed = Capacity
    /\ last[1] = 1
    /\ \E r \in Readers :
          /\ r # 1
          /\ Copied(r)
          /\ last[r] = 0
          /\ Result(r) = "Ok"
          /\ value[r] = 1

\* C4: lossless in-order delivery when not overtaken.  For a handle that
\* only reads: whenever it has copied a slot and the writer has started at
\* most Capacity writes beyond the value the handle last received (so no
\* unread value was overwritten), the result is Ok with the very next
\* written value, or Empty and then every completed write has been received;
\* it is never Dropout.
C4_LosslessInOrder ==
    \A r \in Readers :
        (Copied(r) /\ Started <= last[r] + Capacity) =>
            \/ Result(r) = "Ok" /\ value[r] = last[r] + 1
            \/ Result(r) = "Empty" /\ last[r] = Completed

\* a reader that kept pace is about to receive, as Ok, the value written
\* when the ring wrapped around, while the writer is inside the next write
C4_Witness ==
    \E r \in Readers :
        /\ Copied(r)
        /\ last[r] = Capacity
        /\ Result(r) = "Ok"
        /\ value[r] = Capacity + 1
        /\ read_index[r] = 0

\* C10: in-order delivery.  For any handle, whatever skip_ahead() calls it
\* made, a non-Empty result never carries a value written earlier than the
\* value of the handle's previous non-Empty result.
C10_InOrder ==
    \A r \in Readers :
        (Copied(r) /\ Result(r) # "Empty") => value[r] >= last[r]

\* after a skip_ahead a reader is about to get a Dropout that jumps over a
\* written value
C10_Witness ==
    \E r \in Readers :
        /\ Copied(r)
        /\ skipped[r]
        /\ Result(r) = "Dropout"
        /\ last[r] >= 1
        /\ value[r] > last[r] + 1

\* ------------------------------------------------- claims on serial calls
\* the lap in which the n-th write is stored, and the lap a reader expects
\* once it has received the value v (both as the code counts them from 1)
LapOfWrite(n) == (1 + ((n - 1) \div Capacity)) % LapMod
LapAfterValue(v) == (1 + (v \div Capacity)) % LapMod

\* whole laps and one write made since the reader's latest read()
LapsAndOne(r) == wsince[r] > Capacity /\ wsince[r] % Capacity = 1

\* C5 as stated: from a state in which the reader is caught up and its
\* read() returned Empty, after k * Capacity + 1 writes (any k >= 1) with no
\* read or skip_ahead in between, read() returns Dropout with the latest
\* value, and the read() after that returns Empty.
C5_AsStated ==
    \A r \in Readers :
        Copied(r) =>
            /\ (synced[r] /\ prev[r] = "Empty" /\ LapsAndOne(r)) =>
                   (Result(r) = "Dropout" /\ value[r] = nwrites)
            /\ (prev[r] = "Dropout" /\ skips[r] = 0 /\ wsince[r] = 0
                    /\ last[r] = nwrites) =>
                   Result(r) = "Empty"

\* C5: from a state in which the reader is caught up (it stands at the
\* write cursor on the writer's lap), after k * Capacity + 1 writes with no
\* read or skip_ahead in between, where k >= 1 is not congruent to 0 or -1
\* modulo the range of the lap counter, read() returns Dropout with the
\* latest value; and the read() after a Dropout that carried the latest
\* value returns Empty.
C5_DropoutOnOvertake ==
    \A r \in Readers :
        Copied(r) =>
            /\ (synced[r] /\ LapsAndOne(r)
                    /\ (wsince[r] \div Capacity) % LapMod \notin {0, LapMod - 1}) =>
                   (Result(r) = "Dropout" /\ value[r] = nwrites)
            /\ (prev[r] = "Dropout" /\ skips[r] = 0 /\ wsince[r] = 0
                    /\ last[r] = nwrites) =>
                   Result(r) = "Empty"

\* the reader read Empty, the writer then went twice round the ring and one
\* slot further, and the reader is about to get Dropout with the latest value
C5_Witness ==
    \E r \in Readers :
        /\ Copied(r)
        /\ synced[r]
        /\ prev[r] = "Empty"
        /\ wsince[r] = 2 * Capacity + 1
        /\ Result(r) = "Dropout"
        /\ value[r] = nwrites

\* C6: skip_ahead forces Dropout.  After at least one completed write, a
\* skip_ahead() (the only one since the reader's latest non-Empty result)
\* followed by read() returns Dropout, also when the cursor has just wrapped
\* to 0 and the reader was fully caught up.
C6_SkipAheadForcesDropout ==
    \A r \in Readers :
        (Copied(r) /\ armed[r] /\ skips[r] = 1 /\ vskips[r] = 1) =>
            Result(r) = "Dropout"

TwoLapsShortOfWrap(r) ==
    (LapOfWrite(nwrites) - LapAfterValue(last[r])) % LapMod = LapMod - 2

C8_WriteCompletes == (w_pc # "idle") ~> (w_pc = "idle")

\* C9: reads never wait unboundedly.  Every read() call that has started
\* returns, whatever the writer and the other readers do.
C9_ReadReturns == \A r \in Readers : (r_pc[r] # "idle") ~> (r_pc[r] = "idle")

\* ---------------------------------------------------- claims on delivery
\* reader r is about to be handed a written value
Delivers(r) == Copied(r) /\ Result(r) # "Empty" /\ value[r] >= 1

\* C11 as stated: a reader that never called skip_ahead() twice with no
\* read() in between is never handed a written value a second time.  (Values
\* never go back, C10, so a repeated value repeats the latest one.)
C11_AsStated ==
    \A r \in Readers :
        (Delivers(r) /\ ~twice[r]) => value[r] # last[r]

\* C11: at-most-once delivery.  A reader that never called skip_ahead()
\* twice with no read() in between is handed a written value a second time
\* only by a read() that follows a skip_ahead() made since its previous
\* non-Empty result, and then it is the value of that previous result.
C11_AtMostOnce ==
    \A r \in Readers :
        (Delivers(r) /\ ~twice[r]) =>
            \/ value[r] > last[r]
            \/ value[r] = last[r] /\ vskips[r] >= 1

\* a reader has skipped ahead once, received the latest value, and is about
\* to receive the one written next, each value once
C11_Witness ==
    \E r \in Readers :
        /\ Delivers(r)
        /\ skipped[r]
        /\ ~twice[r]
        /\ vskips[r] = 0
        /\ last[r] >= Capacity
        /\ value[r] = last[r] + 1

\* C12 as stated: gaps are always signalled.  An Ok handed to a reader that
\* has not called skip_ahead() since its previous non-Empty result carries
\* the value written right after the value of that result (the first value
\* written, if there is no previous result).
C12_AsStated ==
    \A r \in Readers :
        (Copied(r) /\ Result(r) = "Ok" /\ vskips[r] = 0) =>
            value[r] = last[r] + 1

\* C12: the same, as long as the writer has started fewer than
\* LapMod * Capacity writes after the value of the previous result (after
\* that many the slot's lap counter shows the reader's lap again).
C12_GapsSignalled ==
    \A r \in Readers :
        (Copied(r) /\ Result(r) = "Ok" /\ vskips[r] = 0
            /\ Started <= last[r] + LapMod * Capacity) =>
            value[r] = last[r] + 1

\* a reader that skipped ahead earlier and got its Dropout is about to get
\* Ok with the value written next, although the writer is a lap further
C12_Witness ==
    \E r \in Readers :
        /\ Copied(r)
        /\ Result(r) = "Ok"
        /\ skipped[r]
        /\ vskips[r] = 0
        /\ last[r] >= 1
        /\ value[r] = last[r] + 1
        /\ Started >= last[r] + Capacity

\* C13: Dropout means real loss.  A Dropout handed to a reader that has not
\* called skip_ahead() since its previous read() carries a value v written
\* at least Capacity writes after the successor of its previous non-Empty
\* result: the value v - Capacity was written after that result and before
\* v, was overwritten (by v, which lies in its slot) and was never returned
\* to this reader.
C13_DropoutMeansLoss ==
    \A r \in Readers :
        (Copied(r) /\ Result(r) = "Dropout" /\ skips[r] = 0) =>
            value[r] >= last[r] + 1 + Capacity

\* a reader that has received a value is overtaken by the writer and is about
\* to get a Dropout that jumps over Capacity values
C13_Witness ==
    \E r \in Readers :
        /\ Copied(r)
        /\ Result(r) = "Dropout"
        /\ ~skipped[r]
        /\ last[r] >= 1
        /\ value[r] = last[r] + 1 + Capacity

\* C14 as stated: Empty means caught up.  For a reader that has not called
\* skip_ahead() since its previous read(), the result is Empty exactly when
\* the writer has completed no write later than the value the reader last
\* received (none at all, if it has received nothing), however far ahead the
\* writer is.  (The reader holds the slot from its copy to this point, so
\* the writes completed later than that value are the same at both.)
C14_AsStated ==
    \A r \in Readers :
        (Copied(r) /\ skips[r] = 0) =>
            (Result(r) = "Empty" <=> Completed <= last[r])

\* C14: the same for a reader that has not called skip_ahead() since its
\* previous non-Empty result, as long as the writer has started fewer than
\* (LapMod - 1) * Capacity writes after the value of that result (the write
\* after those leaves in the slot the lap a caught-up reader expects to find).
C14_EmptyMeansCaughtUp ==
    \A r \in Readers :
        (Copied(r) /\ vskips[r] = 0
            /\ Started < last[r] + 1 + (LapMod - 1) * Capacity) =>
            (Result(r) = "Empty" <=> Completed <= last[r])

\* a reader that has received every value so far finds the slot at the write
\* cursor not yet rewritten, two laps into the ring, while the writer is
\* spinning for that very slot
C14_Witness ==
    \E r \in Readers :
        /\ Copied(r)
        /\ vskips[r] = 0
        /\ Result(r) = "Empty"
        /\ last[r] = 2 * Capacity
        /\ Completed = last[r]
        /\ w_pc = "acquire"

\* C15 as stated: a value is missed only if it was overwritten.  For a
\* reader that only calls read(), a read() that visits a slot holding a
\* written value the reader has not yet received returns that value and not
\* Empty, also right after a Dropout.  (Stated for a reader with at most one
\* non-Empty result so far, whose received values are known exactly.)
C15_AsStated ==
    \A r \in Readers :
        (Copied(r) /\ ~skipped[r] /\ results[r] <= 1
            /\ value[r] >= 1 /\ value[r] # last[r]) =>
            Result(r) # "Empty"

\* C15: for a reader that only calls read(), a read() that visits a slot
\* holding a value written later than every value the reader has received
\* returns that value (as Ok or Dropout) and not Empty, as long as the writer
\* has started fewer than (LapMod - 1) * Capacity writes after the value the
\* reader received last.
C15_MissedOnlyIfOverwritten ==
    \A r \in Readers :
        (Copied(r) /\ ~skipped[r] /\ value[r] > last[r]
            /\ Started < last[r] + 1 + (LapMod - 1) * Capacity) =>
            Result(r) # "Empty"

\* the first result of a reader was a Dropout, and on the next slot it is
\* about to get the value written after the one the Dropout carried
C15_Witness ==
    \E r \in Readers :
        /\ Copied(r)
        /\ ~skipped[r]
        /\ results[r] = 1
        /\ last[r] >= Capacity + 1
        /\ value[r] = last[r] + 1
        /\ Result(r) = "Ok"

\* ------------------------------------------------- claims on the handles
\* a step taken by handle r: a step of its read(), its skip_ahead(), its
\* creation by clone() or its drop
ReaderActs(r) ==
    \/ r_pc'[r] # r_pc[r]
    \/ expected_use_count'[r] # expected_use_count[r]
    \/ read_index'[r] # read_index[r]
    \/ reader_lap_count'[r] # reader_lap_count[r]
    \/ alive'[r] # alive[r]

\* readers between their acquire and their release of slot j
HoldersOf(j) == {r \in Readers : ReaderHolds(r, j)}

\* a step of handle r leaves alone every other handle's cursor and lap, the
\* slots' values and laps, the write cursor and the writer's lap; the one
\* use_count it changes is that of its own slot, by one
FrameOfReader(r) ==
    ReaderActs(r) =>
        /\ \A q \in Readers \ {r} :
              /\ read_index'[q] = read_index[q]
              /\ reader_lap_count'[q] = reader_lap_count[q]
              /\ alive'[q] = alive[q]
        /\ UNCHANGED <<item_data, item_lap_count, write_index, writer_lap_count>>
        /\ \A j \in Slots :
              use_count'[j] # use_count[j] =>
                  /\ j = read_index[r]
                  /\ use_count'[j] - use_count[j] \in {-1, 1}

\* C16: independent fan-out.  read(), skip_ahead(), clone() and drop of one
\* handle never change another handle's read_index or lap, a slot's value or
\* lap, the write cursor or the writer's lap; a slot's use_count is, while
\* the writer does not hold the slot, the number of readers inside it, so
\* every reader gives back what it took.
C16_IndependentFanOut ==
    /\ [](\A j \in Slots : ~WriterHolds(j) => use_count[j] = Cardinality(HoldersOf(j)))
    /\ [][\A r \in Readers : FrameOfReader(r)]_vars

\* one handle has skipped ahead and received values the other has not, while
\* the other, still in step with the writer, holds a slot and is about to
\* get Ok
C16_Witness ==
    \E r, q \in Readers :
        /\ r # q
        /\ alive[r]
        /\ skipped[r]
        /\ last[r] > last[q] + 1
        /\ ~skipped[q]
        /\ Copied(q)
        /\ Result(q) = "Ok"
        /\ value[q] = last[q] + 1

\* C17: clone starts where its source is.  clone() gives the new handle the
\* source's read_index and lap and changes neither in the source; and when
\* the clone then makes every call the source makes, at the same point
\* between the writer's writes, it stands where the source stands after
\* each call, and its latest result has the same kind and the same value.
C17_CloneStartsAtSource ==
    /\ [][(~alive[2] /\ alive'[2]) =>
             /\ read_index'[2] = read_index[1]
             /\ reader_lap_count'[2] = reader_lap_count[1]
             /\ read_index'[1] = read_index[1]
             /\ reader_lap_count'[1] = reader_lap_count[1]]_vars
    /\ []((alive[2] /\ turn = "even" /\ AllIdle) =>
             /\ read_index[2] = read_index[1]
             /\ reader_lap_count[2] = reader_lap_count[1]
             /\ prev[2] = prev[1]
             /\ last[2] = last[1])

\* source and clone, cloned after the source had wrapped around the ring,
\* have both skipped ahead and both got their Dropout
C17_Witness ==
    /\ alive[2]
    /\ turn = "even"
    /\ AllIdle
    /\ skipped[1]
    /\ skipped[2]
    /\ prev[1] = "Dropout"
    /\ prev[2] = "Dropout"
    /\ last[2] > Capacity
    /\ results[2] = 2

\* C18: only written values are delivered.  Whatever calls a handle has
\* made, also skip_ahead() on a buffer never written, the value of an Ok or
\* a Dropout was passed to a write() that has begun; the zero a slot is
\* filled with at construction is never returned.
C18_OnlyWrittenValues ==
    \A r \in Readers :
        (Copied(r) /\ Result(r) # "Empty") => value[r] \in 1 .. nwrites

\* C20: the writer's release never fails.  Whenever the writer stands at its
\* release compare_exchange(-1, 0), the use_count of the slot it took is
\* exactly -1, so the unwrap() never panics, however many readers spin on
\* that slot, skip ahead onto it, are cloned or are dropped meanwhile.
C20_ReleaseNeverFails ==
    /\ w_pc # "panicked"
    /\ w_pc = "release" => use_count[index] = -1

\* the writer stands at its release while two readers spin on its slot,
\* both having seen -1 there and retrying with 0
C20_Witness ==
    /\ w_pc = "release"
    /\ nwrites >= 2
    /\ \A r \in FanReaders :
          /\ alive[r]
          /\ r_pc[r] = "acquire"
          /\ read_index[r] = index
          /\ expected_use_count[r] = 0
          /\ results[r] >= 1

\* C19: construction precondition.  ring_buffer(capacity) panics, leaving no
\* slots and no handle, if and only if capacity < 2; for every capacity >= 2
\* it returns a reader with read_index 0 and lap 1, a writer with lap 1, the
\* write cursor 0, and capacity slots, each with use_count 0 and lap 0.
C19_ConstructionPrecondition ==
    /\ [](outcome # "pending" => (outcome = "panicked" <=> capacity < 2))
    /\ [](outcome = "panicked" =>
             /\ DOMAIN use_count = {}
             /\ \A r \in Readers : ~alive[r])
    /\ [][(outcome = "pending" /\ outcome' = "returned") =>
             /\ alive'[1]
             /\ read_index'[1] = 0
             /\ reader_lap_count'[1] = 1
             /\ writer_lap_count' = 1
             /\ write_index' = 0
             /\ DOMAIN use_count' = 0 .. (capacity - 1)
             /\ DOMAIN item_lap_count' = 0 .. (capacity - 1)
             /\ \A j \in 0 .. (capacity - 1) :
                   use_count'[j] = 0 /\ item_lap_count'[j] = 0]_vars

\* ring_buffer(1) has panicked: the largest capacity that is refused
C19_Witness ==
    /\ capacity = 1
    /\ outcome = "panicked"

\* C21: the use_count invariant.  A slot's use_count is -1 exactly while the
\* writer is between its acquire and its release of that slot, and otherwise
\* it is the number of readers between their acquire and release of it; it
\* is never below -1 nor above the number of handles, so each debug
\* assertion of read() and write() holds where it is evaluated.
C21_UseCountInvariant ==
    /\ \A j \in Slots :
          /\ use_count[j] = -1 <=> WriterHolds(j)
          /\ use_count[j] # -1 => use_count[j] = Cardinality(HoldersOf(j))
          /\ use_count[j] >= -1
          /\ use_count[j] <= Cardinality({r \in Readers : alive[r]})
    \* line 301: a failed attempt of the writer saw a positive count
    /\ (w_pc = "acquire" /\ use_count[index] # 0) => use_count[index] > 0
    \* line 210: fetch_sub finds the reader's own increment
    /\ \A r \in Readers : Copied(r) => use_count[read_index[r]] >= 1

\* two readers hold the slot the writer is spinning on, after it has been
\* written once and both have been through a read
C21_Witness ==
    /\ w_pc = "acquire"
    /\ nwrites > Capacity
    /\ use_count[index] = 2
    /\ Cardinality(HoldersOf(index)) = 2
    /\ \A r \in FanReaders : results[r] >= 1

\* C22: cursor publish ordering.  When a skip_ahead() has loaded the cursor
\* published by the n-th write, the read() that follows it copies, from the
\* slot before that cursor position, the value and the lap stored by the
\* n-th write or by a later one, never what the slot held before.
C22_PublishAfterStore ==
    \A r \in Readers :
        (Copied(r) /\ skips[r] >= 1 /\ seen[r] >= 1) =>
            /\ value[r] >= seen[r]
            /\ value[r] <= Len(stored)
            /\ stored[value[r]] = CopiedPair(r)

\* on the second lap of the ring, the read() after a single skip_ahead has
\* copied, at its first attempt, the value of the very write whose cursor
\* the skip_ahead loaded
C22_Witness ==
    /\ Copied(1)
    /\ skips[1] = 1
    /\ seen[1] >= Capacity + 1
    /\ value[1] = seen[1]
    /\ expected_use_count[1] = 0
    /\ results[1] >= 1

\* the latest of the first n writes that went to slot j (0: none did); the
\* k-th write goes to slot (k - 1) mod Capacity
LatestWriteTo(j, n) ==
    LET ks == {k \in 1 .. n : (k - 1) % Capacity = j}
    IN  IF ks = {} THEN 0 ELSE CHOOSE k \in ks : \A h \in ks : h <= k

\* C23: ring content invariant.  Whenever the writer is not inside write(),
\* after n completed writes the cursor is n mod Capacity, the writer's lap is
\* 1 + n div Capacity modulo the lap width, and every slot holds the value
\* and the lap of the latest write that went to it, or the initial (0, 0)
\* pair if none did; so the slots below the cursor carry the writer's lap
\* and the slots at or above it the lap before.  Every store of the writer
\* changes the one slot it has taken and no other.
C23_RingContent ==
    /\ [](w_pc = "idle" =>
             /\ write_index = nwrites % Capacity
             /\ write_index \in Slots
             /\ writer_lap_count = (1 + (nwrites \div Capacity)) % LapMod
             /\ \A j \in Slots :
                   LET k == LatestWriteTo(j, nwrites)
                   IN  /\ item_data[j] = k
                       /\ item_lap_count[j] = IF k = 0 THEN 0 ELSE LapOfWrite(k)
                       /\ j < write_index => item_lap_count[j] = writer_lap_count
                       /\ j >= write_index =>
                             WrappingAdd1(item_lap_count[j]) = writer_lap_count)
    /\ [][/\ \A j \in Slots :
                (\/ item_data'[j] # item_data[j]
                 \/ item_lap_count'[j] # item_lap_count[j])
                    => (j = index /\ WriterHolds(j))
          /\ (w_pc = "store_data" /\ w_pc' = "store_lap")
                 => item_data'[index] # item_data[index]]_vars

\* the writer is idle in the middle of a lap after the first, with the
\* reader in the middle of a read(): slots below the cursor are a lap ahead
\* of the others
C23_Witness ==
    /\ w_pc = "idle"
    /\ nwrites > Capacity
    /\ write_index = 1
    /\ item_lap_count[0] = WrappingAdd1(item_lap_count[1])
    /\ Copied(1)

\* C24: the wrap of the lap counters is harmless for a reader that keeps
\* pace.  While the writer has never taken a slot for a value more than
\* Capacity after the reader's latest, every read() that finds a new value
\* returns Ok with the next value in order, as one write stored it, and
\* every other read() returns Empty; none returns Dropout, also when the
\* laps of the writer and the reader pass from the largest lap to 0.
C24_WrapHarmless ==
    \A r \in Readers :
        (Copied(r) /\ kept[r]) =>
            IF Started > last[r]
            THEN /\ Result(r) = "Ok"
                 /\ value[r] = last[r] + 1
                 /\ stored[value[r]] = CopiedPair(r)
            ELSE Result(r) = "Empty"

\* the reader, having kept pace through all laps, has copied the first value
\* stored with lap 0 after the largest lap, and expects lap 0 itself
C24_Witness ==
    /\ Copied(1)
    /\ kept[1]
    /\ value[1] = (LapMod - 1) * Capacity + 1
    /\ value_lap_count[1] = 0
    /\ reader_lap_count[1] = 0
    /\ last[1] = value[1] - 1

\* ---------------------------------------------------- claims on deadlock
\* calls in progress
WriterInCall == w_pc \notin {"idle", "panicked"}
ReaderInCall(r) == alive[r] /\ r_pc[r] # "idle"

\* lines 297-299 and 186-191: the compare_exchange a spinning thread makes
\* next would succeed
WriterAttemptSucceeds == use_count[index] = 0
ReaderAttemptSucceeds(r) == use_count[read_index[r]] = expected_use_count[r]

\* a thread in its spin loop that cannot get the slot until another thread
\* releases it: the writer while readers hold it, a reader while the writer
\* holds it
WriterStuck == w_pc = "acquire" /\ use_count[index] # 0
ReaderStuck(r) == r_pc[r] = "acquire" /\ use_count[read_index[r]] < 0

\* some call is in progress and every call in progress is stuck
AllStuck ==
    /\ WriterInCall \/ \E r \in Readers : ReaderInCall(r)
    /\ WriterInCall => WriterStuck
    /\ \A r \in Readers : ReaderInCall(r) => ReaderStuck(r)

\* a thread that holds a slot can take its next step, whatever the others do
HoldersCanStep ==
    /\ \A j \in Slots : WriterHolds(j) => ENABLED WriterThread
    /\ \A j \in Slots : \A r \in HoldersOf(j) : ENABLED ReaderThread(r)

\* the slot a thread spins on is free: every holder has released it
WriterSlotFree == w_pc = "acquire" /\ use_count[index] = 0
ReaderSlotFree(r) ==
    alive[r] /\ r_pc[r] = "acquire" /\ use_count[read_index[r]] = 0

====
